---- MODULE Spec2Model ----
(***************************************************************************)
(* The main Telegram quiz bot (src/bot.py lines 1-306) as a state machine. *)
(* One step is one update handled to completion by the ConversationHandler:*)
(* the application processes updates one at a time, so a handler, with     *)
(* every call it makes, is one atomic action.  A Telegram API call may     *)
(* raise; the handler then stops at that call, what it assigned before is  *)
(* kept and the conversation state is left as it was.                      *)
(***************************************************************************)
EXTENDS Integers, Sequences, FiniteSets, TLC

VARIABLES
    conversations,    \* ConversationHandler's state of each (chat, user) key
    user_data_store,  \* the dict user_id -> session
    user_data,        \* context.user_data of each user (a dict)
    chat_msgs,        \* the question messages of each conversation within reach
    awaiting,         \* the handler suspended at the question fetch, or Idle
    tally,            \* observer of each user's session, see Observe
    last              \* observer: the update handled last and what its
                      \* handler did, see Apply

vars ==
    <<conversations, user_data_store, user_data, chat_msgs, awaiting, tally,
      last>>

----------------------------------------------------------------------------
(* Bounds of the model *)

\* random.shuffle yields one of the rotations 0..MaxShift of the option list
MaxShift == 1
\* question messages of a conversation the user keeps within reach (presses
\* again); the others are abandoned
MaxMsgs == 1

Users == {"u1", "u2"}
Chats == {"c1", "c2"}

----------------------------------------------------------------------------
(* Constants of the program *)

SELECTING_CATEGORY == 0
SELECTING_DIFFICULTY == 1
QUIZ == 2
\* ConversationHandler.END
END == -1
\* no conversation key yet: the handler treats it exactly as an ended one
NOT_STARTED == -2

\* amount=10 of the request URL
AMOUNT == 10

CATEGORIES ==
    [c \in {"General Knowledge", "Books", "Film", "Music", "Science & Nature",
            "Computers", "Mathematics", "Mythology", "Sports", "Geography",
            "History", "Politics", "Art"} |->
        CASE c = "General Knowledge" -> 9
          [] c = "Books" -> 10
          [] c = "Film" -> 11
          [] c = "Music" -> 12
          [] c = "Science & Nature" -> 17
          [] c = "Computers" -> 18
          [] c = "Mathematics" -> 19
          [] c = "Mythology" -> 20
          [] c = "Sports" -> 21
          [] c = "Geography" -> 22
          [] c = "History" -> 23
          [] c = "Politics" -> 24
          [] c = "Art" -> 25]

\* the difficulty values the trivia API knows (the three difficulty buttons)
DIFFICULTIES == {"easy", "medium", "hard"}

\* f"opt{i}" for i = 0, 1, 2, ...
OptTokens == <<"opt0", "opt1", "opt2", "opt3">>
CallbackData(i) == OptTokens[i + 1]

----------------------------------------------------------------------------
(* Inputs: the updates a user can deliver *)

\* callback data a client can send: the buttons the bot shows, a category the
\* bot never shows (History is the 11th of the table) and unknown data
CallbackTokens ==
    {"start_quiz", "play_again", "exit", "Books", "History", "easy",
     "opt0", "opt1", "opt2", "opt3", "disabled"}

Updates ==
    {[kind |-> "command", data |-> "start"],
     [kind |-> "command", data |-> "cancel"],
     [kind |-> "text", data |-> "hello"]}
    \cup {[kind |-> "callback_query", data |-> t] : t \in CallbackTokens}

\* The conversation Main is explored with every input the environment can
\* produce (isWild).  The other conversations, which the specifications of
\* several conversations use, get the inputs of an orderly user and of a
\* Telegram API that does not fail: every kind of event, the buttons the bot
\* shows, one option of the question shown last, no exception in an API
\* call, the shuffle leaving the list as built.
Main == <<"c1", "u1">>

isWild(k) == k = Main

UpdatesOf(k) ==
    IF isWild(k) THEN Updates
    ELSE {upd \in Updates :
            upd.kind = "callback_query"
                => upd.data \in {"start_quiz", "play_again", "exit", "Books",
                                 "easy", "opt3"}}

\* the API call that raises, among the first n of a handler (0: none)
RaisesOf(k, n) == IF isWild(k) THEN 0..n ELSE {0}

ShiftsOf(k) == IF isWild(k) THEN 0..MaxShift ELSE {0}

DeletesOf(k) == IF isWild(k) THEN BOOLEAN ELSE {TRUE}

----------------------------------------------------------------------------
(* Question Source *)

\* html.unescape on the texts the payloads use
Unescape(s) ==
    CASE s = "Tom &amp; Jerry" -> "Tom & Jerry"
      [] s = "&quot;w&quot;" -> "\"w\""
      [] s = "5 &lt; 6" -> "5 < 6"
      [] OTHER -> s

MapSeq(s, Op(_)) == [i \in 1..Len(s) |-> Op(s[i])]

\* random.shuffle: the outcome is drawn by the caller (shift); the model draws
\* it among the rotations of the list
Shuffle(options, shift) ==
    LET n == Len(options)
    IN [i \in 1..n |-> options[((i - 1 + shift) % n) + 1]]

PoolA == <<"w", "x", "y", "Tom &amp; Jerry">>
PoolB == <<"&quot;w&quot;", "p", "q", "5 &lt; 6">>
TextsA == <<"A1", "A2", "A3", "A4", "A5", "A6", "A7", "A8", "A9", "A10">>
TextsB == <<"B1", "B2", "B3", "B4", "B5", "B6", "B7", "B8", "B9", "B10">>

\* one item of the API's results list: the correct answer is the k-th text of
\* the pool, the incorrect answers are the others in pool order
Item(text, pool, k) ==
    [question |-> text,
     correct_answer |-> pool[k],
     incorrect_answers |-> SelectSeq(pool, LAMBDA t : t # pool[k])]

ResultsA == [i \in 1..AMOUNT |-> Item(TextsA[i], PoolA, (i % 4) + 1)]
ResultsB == [i \in 1..AMOUNT |-> Item(TextsB[i], PoolB, ((3 * i) % 4) + 1)]

\* What the HTTP GET can produce.  The API honours amount=10 all or nothing
\* (ten results, or none with a "no results" code), it has results only for a
\* difficulty it knows, and its questions are those of the category asked.
\*   error:     network error, timeout, HTTP error status or undecodable body
\*   json:      a decoded body with a results list
\*   malformed: a decoded body whose items lack the expected keys
Responses(category_id, difficulty) ==
    {[kind |-> "error", results |-> <<>>],
     [kind |-> "json", results |-> <<>>],
     [kind |-> "malformed", results |-> <<>>]}
    \cup (IF difficulty \in DIFFICULTIES
          THEN {[kind |-> "json",
                 results |-> IF category_id = 23 THEN ResultsA ELSE ResultsB]}
          ELSE {})

ParseItem(item, shift) ==
    LET question == Unescape(item.question)
        correct == Unescape(item.correct_answer)
        options == Append(MapSeq(item.incorrect_answers, Unescape), correct)
    IN <<question, correct, Shuffle(options, shift)>>

\* fetch_questions_async: raised is TRUE when an exception leaves the function
fetch_questions_async(resp, shift) ==
    CASE resp.kind = "error" -> [raised |-> FALSE, questions |-> <<>>]
      [] resp.kind = "malformed" -> [raised |-> TRUE, questions |-> <<>>]
      [] OTHER ->
            [raised |-> FALSE,
             questions |-> [i \in 1..Len(resp.results) |->
                                ParseItem(resp.results[i], shift)]]

----------------------------------------------------------------------------
(* Session store and presentation helpers *)

\* the pop as it would be with user_data_store.clear()
Pop_every(store, user_id) == <<>>

Pop(store, user_id) == [k \in (DOMAIN store) \ {user_id} |-> store[k]]

Put(store, user_id, data) ==
    [k \in (DOMAIN store) \cup {user_id} |->
        IF k = user_id THEN data ELSE store[k]]

SetKey(dict, key, value) ==
    [k \in (DOMAIN dict) \cup {key} |-> IF k = key THEN value ELSE dict[k]]

NewSession(questions) == [questions |-> questions, score |-> 0, index |-> 0]

\* data.get('callback_map', {})
GetCallbackMap(data) ==
    IF "callback_map" \in DOMAIN data THEN data.callback_map ELSE <<>>

\* the callback_map as it would be if the loop kept its first option_text
CallbackMap_first_option(options) ==
    [t \in {CallbackData(i) : i \in 0..(Len(options) - 1)} |-> options[1]]

\* the callback_map send_question builds for a question's options
CallbackMap(options) ==
    [t \in {CallbackData(i) : i \in 0..(Len(options) - 1)} |->
        options[CHOOSE i \in 1..Len(options) : CallbackData(i - 1) = t]]

SetCallbackMap(data, callback_map) ==
    [questions |-> data.questions, score |-> data.score, index |-> data.index,
     callback_map |-> callback_map]

----------------------------------------------------------------------------
(* Question messages.  A message is known by what handle_answer's calls on *)
(* it depend on: stale, a later question has been shown after it; shows,   *)
(* its markup: "active" (the opt buttons), "current" (the disabled buttons *)
(* of the question the session is at now: the same edit again is refused   *)
(* as "message is not modified") or "other" (disabled buttons of another   *)
(* question).  Distinct question instances have distinct option lists.     *)

MsgRecords == [stale : BOOLEAN, shows : {"active", "current", "other"}]

QuestionMsg == [stale |-> FALSE, shows |-> "active"]

\* the origin of a callback query whose message was deleted or abandoned
Gone == [stale |-> TRUE, shows |-> "gone"]

\* query.edit_message_reply_markup succeeds only on a message that exists and
\* whose markup differs from the new one
CanEdit(msgs, origin) == origin \in msgs /\ origin.shows # "current"

\* the question instance a user's session is at
AtQuestion(store, user_id) ==
    IF user_id \in DOMAIN store
    THEN <<store[user_id].questions, store[user_id].index>>
    ELSE <<>>

\* the disabled buttons of the question the session was at are those of
\* another question once the session has moved or gone
Demote(msgs) ==
    {IF m.shows = "current" THEN [m EXCEPT !.shows = "other"] ELSE m : m \in msgs}

----------------------------------------------------------------------------
(* ConversationHandler: which handler an update reaches in a state *)

\* the negative lookahead (?!start_quiz|play_again|exit) on the model's tokens
HasReservedPrefix(data) == data \in {"start_quiz", "play_again", "exit"}

InConversation(state) == state \notin {NOT_STARTED, END}

\* conv_handler: entry points when there is no conversation; otherwise the
\* handlers of the state in their order, then the fallbacks; "none" when no
\* handler matches (the update is dropped)
Handler(state, upd) ==
    IF ~InConversation(state)
    THEN IF upd.kind = "command" /\ upd.data = "start" THEN "start"
         ELSE IF upd.kind = "text" THEN "start"
         ELSE "none"
    ELSE IF upd.kind = "callback_query"
    THEN CASE state = SELECTING_CATEGORY ->
                 IF upd.data = "start_quiz" THEN "show_categories"
                 ELSE IF ~HasReservedPrefix(upd.data) THEN "category_selected"
                 ELSE IF upd.data \in {"play_again", "exit"} THEN "play_again"
                 ELSE "none"
           [] state = SELECTING_DIFFICULTY -> "difficulty_selected"
           [] state = QUIZ -> "handle_answer"
           [] OTHER -> "none"
    ELSE IF upd.kind = "command" /\ upd.data = "cancel" THEN "cancel"
    ELSE IF upd.kind = "text" THEN "start"
    ELSE "none"

----------------------------------------------------------------------------
(* The handlers.  Each is an operator from the state before and the inputs *)
(* (the update, what the environment answers) to a result: the new store,  *)
(* user data and messages, the call of the Question Source it made and what*)
(* came back, the state it returns, whether it raised, and the last notice *)
(* it delivered ("" when none).  `raises` is the number of the Telegram API*)
(* call that raises, 0 when none does.                                     *)

NoCall == [category_id |-> 0, difficulty |-> ""]

Res(store, udata, msgs, call, fetched, next, raised, notice) ==
    [store |-> store, udata |-> udata, msgs |-> msgs, call |-> call,
     fetched |-> fetched, next |-> next, raised |-> raised, notice |-> notice]

\* a handler that stops at its first API call, or delivers `notice` and
\* returns `next`; it assigns nothing but what it is given
Reply(k, store, udata, next, raised, notice) ==
    Res(store, udata, chat_msgs[k], NoCall, "", next, raised,
        IF raised THEN "" ELSE notice)

\* start as it would be without the pop
start_keeps_session(k, raises) ==
    Reply(k, user_data_store, user_data[k[2]], SELECTING_CATEGORY,
          raises = 1, "welcome")

\* start: pop the session, then show the welcome prompt (reply_text for a
\* message update, edit_text for a callback query)
start(k, raises) ==
    Reply(k, Pop(user_data_store, k[2]), user_data[k[2]], SELECTING_CATEGORY,
          raises = 1, "welcome")

\* show_categories: query.answer, then edit_message_text
show_categories(k, raises) ==
    Reply(k, user_data_store, user_data[k[2]], SELECTING_CATEGORY,
          raises \in {1, 2}, "choose category")

\* category_selected: category_name is stored before CATEGORIES[category_name]
\* is looked up (KeyError for data that is no category name)
category_selected(k, category_name, raises) ==
    LET ud1 == SetKey(user_data[k[2]], "category_name", category_name)
    IN IF category_name \notin DOMAIN CATEGORIES
       THEN Reply(k, user_data_store, ud1, SELECTING_DIFFICULTY, TRUE, "")
       ELSE Reply(k, user_data_store,
                  SetKey(ud1, "category_id", CATEGORIES[category_name]),
                  SELECTING_DIFFICULTY, raises \in {1, 2}, "choose difficulty")

\* send_question on a store: replaces the session's callback_map, then sends
\* the question message.  Once it is sent the older messages are stale; the
\* user keeps the older messages `kept` within reach, and the new one when
\* keep_new.
send_question(store, user_id, msgs, kept, keep_new, raised) ==
    LET data == store[user_id]
        q == data.questions[data.index + 1]
        options == q[3]
        store1 == Put(store, user_id, SetCallbackMap(data, CallbackMap(options)))
    IN [store |-> store1,
        msgs |-> IF raised THEN msgs
                 ELSE {[m EXCEPT !.stale = TRUE] : m \in kept}
                      \cup (IF keep_new THEN {QuestionMsg} ELSE {})]

\* the call as it would be with the two arguments' sources mixed up
FetchCall_by_name(ud, difficulty) ==
    [category_id |-> CATEGORIES["General Knowledge"], difficulty |-> difficulty]

\* the arguments fetch_questions_async is called with
FetchCall(ud, difficulty) ==
    [category_id |-> ud.category_id, difficulty |-> difficulty]

\* the failure branch as it would be if it let the user choose again
fetch_failed_retry(k, call, raises) ==
    Res(user_data_store, user_data[k[2]], chat_msgs[k], call, "empty",
        SELECTING_DIFFICULTY, raises = 2,
        IF raises = 2 THEN "" ELSE "fetch failed")

\* difficulty_selected, when the fetch gave no questions: the failure notice,
\* then the conversation ends
fetch_failed(k, call, raises) ==
    Res(user_data_store, user_data[k[2]], chat_msgs[k], call, "empty", END,
        raises = 2, IF raises = 2 THEN "" ELSE "fetch failed")

\* difficulty_selected
difficulty_selected(k, difficulty, resp, shift, reach, raises) ==
    LET user_id == k[2]
        ud == user_data[user_id]
        msgs == chat_msgs[k]
    IN IF "category_id" \notin DOMAIN ud
       THEN Reply(k, user_data_store, ud, END, raises = 1, "category not set")
       ELSE IF raises = 1    \* send_action
       THEN Reply(k, user_data_store, ud, END, TRUE, "")
       ELSE
    LET call == FetchCall(ud, difficulty)
        fetched == fetch_questions_async(resp, shift)
        questions == fetched.questions
        store1 == Put(user_data_store, user_id, NewSession(questions))
    IN IF fetched.raised
       THEN Res(user_data_store, ud, msgs, call, "exception", END, TRUE, "")
       ELSE IF questions = <<>>
       THEN fetch_failed(k, call, raises)
       ELSE IF raises = 2    \* query.answer
       THEN Res(store1, ud, msgs, call, "questions", QUIZ, TRUE, "")
       ELSE LET sq == send_question(store1, user_id, msgs,
                                    msgs \cap reach.old, reach.new, raises = 3)
            IN Res(sq.store, ud, sq.msgs, call, "questions", QUIZ, raises = 3,
                   IF raises = 3 THEN "" ELSE "question")

\* callback_map.get(selected_callback)
None == "<None>"
\* callback_map.get(selected_callback, selected_callback)
Lookup_default_text(callback_map, selected_callback) ==
    IF selected_callback \in DOMAIN callback_map
    THEN callback_map[selected_callback] ELSE selected_callback

Lookup(callback_map, selected_callback) ==
    IF selected_callback \in DOMAIN callback_map
    THEN callback_map[selected_callback] ELSE None

\* the score as it would be if every accepted answer counted
Grade_every_answer(data, answer, correct) ==
    [data EXCEPT !.score = data.score + 1]

\* if answer == correct: data['score'] += 1
Grade(data, answer, correct) ==
    IF answer = correct THEN [data EXCEPT !.score = data.score + 1] ELSE data

\* the index as it would be without data['index'] += 1
Advance_never(data) == data

\* the index as it would be with data['index'] += 2
Advance_by_two(data) == [data EXCEPT !.index = data.index + 2]

\* data['index'] += 1
Advance(data) == [data EXCEPT !.index = data.index + 1]

\* handle_answer.  origin is the message the button was on; delete_ok tells
\* whether query.message.delete() succeeds (its failure is caught).
handle_answer(k, selected_callback, origin, reach, delete_ok, raises) ==
    LET user_id == k[2]
        ud == user_data[user_id]
        msgs == chat_msgs[k]
        Fail(store, ms) == Res(store, ud, ms, NoCall, "", QUIZ, TRUE, "")
    IN IF user_id \notin DOMAIN user_data_store
       THEN Fail(user_data_store, msgs)                         \* KeyError
       ELSE
    LET data == user_data_store[user_id]
        answer == Lookup(GetCallbackMap(data), selected_callback)
    IN IF answer = None
       THEN Reply(k, user_data_store, ud, QUIZ, raises = 1, "invalid selection")
       ELSE IF data.index >= Len(data.questions)
       THEN Fail(user_data_store, msgs)                         \* IndexError
       ELSE
    LET q == data.questions[data.index + 1]
        correct == q[2]
        edited == [origin EXCEPT !.shows = "current"]
        msgs1 == (msgs \ {origin}) \cup {edited}
        data1 == Grade(data, answer, correct)
        store1 == Put(user_data_store, user_id, data1)
        msgs2 == IF delete_ok THEN msgs1 \ {edited} ELSE msgs1
        data2 == Advance(data1)
        store2 == Put(user_data_store, user_id, data2)
    IN IF ~CanEdit(msgs, origin) \/ raises = 1
       THEN Fail(user_data_store, msgs)
       ELSE IF raises = 2      \* the feedback message
       THEN Fail(store1, msgs1)
       ELSE IF data2.index < Len(data2.questions)
       THEN LET kept == ((msgs \ {origin}) \cap reach.old)
                         \cup (IF origin \in reach.old
                               THEN msgs2 \cap {edited} ELSE {})
                sq == send_question(store2, user_id, msgs2, kept, reach.new,
                                    raises = 3)
            IN Res(sq.store, ud, sq.msgs, NoCall, "", QUIZ, raises = 3,
                   IF raises = 3 THEN "" ELSE "question")
       ELSE Res(store2, ud, msgs2, NoCall, "", SELECTING_CATEGORY, raises = 3,
                IF raises = 3 THEN "" ELSE "finished")

\* play_again as it would be if both choices ended the conversation
play_again_ends(k, data, raises) ==
    IF data = "play_again"
    THEN [start(k, raises) EXCEPT !.next = END]
    ELSE Reply(k, user_data_store, user_data[k[2]], END, raises = 1, "thanks")

\* play_again: "play_again" pops the session and runs start; "exit" says
\* goodbye and ends the conversation
play_again(k, data, raises) ==
    IF data = "play_again"
    THEN start(k, raises)
    ELSE Reply(k, user_data_store, user_data[k[2]], END, raises = 1, "thanks")

\* cancel as it would be without the pop
cancel_keeps_session(k, raises) ==
    Reply(k, user_data_store, user_data[k[2]], END, raises = 1, "cancelled")

\* cancel: reply first, then pop the session
cancel(k, raises) ==
    IF raises = 1
    THEN Reply(k, user_data_store, user_data[k[2]], END, TRUE, "")
    ELSE Reply(k, Pop(user_data_store, k[2]), user_data[k[2]], END, FALSE,
               "cancelled")

----------------------------------------------------------------------------
(* The state machine *)

Keys == Chats \X Users

HasSession(u) == u \in DOMAIN user_data_store

\* the press carries a key of the session's current callback_map
Known(u, token) ==
    HasSession(u) /\ token \in DOMAIN GetCallbackMap(user_data_store[u])

\* handle_answer reads the origin and the outcome of delete only for a press
\* it accepts
Accepts(u, token) ==
    /\ HasSession(u)
    /\ Lookup(GetCallbackMap(user_data_store[u]), token) # None
    /\ user_data_store[u].index < Len(user_data_store[u].questions)

NoTally == [clean |-> FALSE, answers |-> 0, correct |-> 0, replay |-> FALSE]

\* Observer of a user's session.  clean: since the session was created every
\* handler of the user returned without an exception and every accepted press
\* came from the question message shown last; answers: the presses accepted
\* since then; correct: those among them whose option text, as the
\* callback_map shown with the question resolves it, is the question's
\* correct answer; replay: the user chose "play_again" with a finished
\* session and has not restarted, cancelled or met an exception since.
Observe(k, upd, handler, origin, r) ==
    LET u == k[2]
        old == tally[u]
        data == user_data_store[u]
        replay ==
            \/ /\ handler = "play_again" /\ upd.data = "play_again"
               /\ HasSession(u) /\ data.index = Len(data.questions)
            \/ /\ old.replay
               /\ handler \in {"show_categories", "category_selected",
                               "difficulty_selected", "handle_answer", "none"}
    IN IF r.raised THEN NoTally
       ELSE IF u \notin DOMAIN r.store THEN [NoTally EXCEPT !.replay = replay]
       ELSE IF r.fetched = "questions"        \* a session was created
       THEN [clean |-> TRUE, answers |-> 0, correct |-> 0, replay |-> replay]
       ELSE IF handler = "handle_answer" /\ Known(u, upd.data) /\ old.clean
       THEN IF origin \in chat_msgs[k] /\ ~origin.stale
               /\ data.index < Len(data.questions)
            THEN [clean |-> TRUE, answers |-> old.answers + 1,
                  replay |-> old.replay,
                  correct |-> old.correct +
                      (IF GetCallbackMap(data)[upd.data]
                             = data.questions[data.index + 1][2]
                       THEN 1 ELSE 0)]
            ELSE NoTally
       ELSE old

\* no handler is suspended
Idle == [key |-> <<"", "">>, data |-> ""]

Init ==
    /\ conversations = [k \in Keys |-> NOT_STARTED]
    /\ user_data_store = <<>>
    /\ user_data = [u \in Users |-> <<>>]
    /\ chat_msgs = [k \in Keys |-> {}]
    /\ awaiting = Idle
    /\ tally = [u \in Users |-> NoTally]
    /\ last = [key |-> <<"", "">>, event |-> "", data |-> "",
               handler |-> "init", known |-> FALSE, stale |-> FALSE,
               right |-> FALSE, prior |-> -1, call |-> NoCall,
               fetched |-> "", raised |-> FALSE, notice |-> ""]

\* what `last` keeps of an update: its kind, and the command's name
Event(upd) == IF upd.kind = "command" THEN upd.data ELSE upd.kind

\* The ConversationHandler's part after the handler: the returned state is
\* stored unless the handler raised.  `last` keeps of the step: key, the
\* conversation; event, the update's kind; data, the callback data of a menu
\* choice; handler, the handler reached ("none": dropped); known, the press
\* carried a key of the callback_map; stale, it came from a stale question
\* message; right, the option the press resolved to was the correct answer
\* of the question the session was at; prior, the index of the user's
\* session before (-1: no session);
\* call and fetched, the Question Source call and its outcome; raised, the
\* handler ended by an exception; notice, the last message it delivered.
Apply(k, upd, handler, origin, r) ==
    /\ awaiting' = Idle
    /\ conversations' = IF r.raised THEN conversations
                        ELSE [conversations EXCEPT ![k] = r.next]
    /\ user_data_store' = r.store
    /\ user_data' = [user_data EXCEPT ![k[2]] = r.udata]
    /\ chat_msgs' =
          [j \in Keys |->
              LET ms == IF j = k THEN r.msgs ELSE chat_msgs[j]
              IN IF j[2] = k[2]
                    /\ AtQuestion(r.store, k[2]) # AtQuestion(user_data_store, k[2])
                 THEN Demote(ms) ELSE ms]
    /\ tally' = [tally EXCEPT ![k[2]] = Observe(k, upd, handler, origin, r)]
    /\ last' = [key |-> k, event |-> Event(upd),
                data |-> IF handler \in {"category_selected",
                                         "difficulty_selected", "play_again"}
                         THEN upd.data ELSE "",
                handler |-> handler,
                known |-> (handler = "handle_answer" /\ Known(k[2], upd.data)),
                stale |-> (origin \in chat_msgs[k] /\ origin.stale),
                right |-> (/\ handler = "handle_answer"
                           /\ Known(k[2], upd.data)
                           /\ LET data == user_data_store[k[2]]
                              IN /\ data.index < Len(data.questions)
                                 /\ data.callback_map[upd.data]
                                       = data.questions[data.index + 1][2]),
                prior |-> IF HasSession(k[2])
                          THEN user_data_store[k[2]].index ELSE -1,
                call |-> r.call, fetched |-> r.fetched, raised |-> r.raised,
                notice |-> r.notice]

\* The application takes the next update only when the handler of the one
\* before has returned (no concurrent_updates, no handler with block=False).
Routed(k, upd, handler) ==
    awaiting = Idle /\ Handler(conversations[k], upd) = handler

\* what the user keeps within reach when a new question is shown: some of
\* the older messages (old) and maybe the new one (new), MaxMsgs at most
ReachChoices(k) ==
    IF isWild(k)
    THEN {r \in [old : SUBSET chat_msgs[k], new : BOOLEAN] :
            Cardinality(r.old) + (IF r.new THEN 1 ELSE 0) <= MaxMsgs}
    ELSE {[old |-> {}, new |-> TRUE]}

\* the messages a press can come from
OriginsOf(k) ==
    IF isWild(k) \/ chat_msgs[k] = {} THEN chat_msgs[k] \cup {Gone}
    ELSE chat_msgs[k]

NoReach == [old |-> {}, new |-> FALSE]

Start(k) ==
    \E upd \in UpdatesOf(k), raises \in RaisesOf(k, 1) :
        /\ Routed(k, upd, "start")
        /\ Apply(k, upd, "start", Gone, start(k, raises))

ShowCategories(k) ==
    \E upd \in UpdatesOf(k), raises \in RaisesOf(k, 2) :
        /\ Routed(k, upd, "show_categories")
        /\ Apply(k, upd, "show_categories", Gone, show_categories(k, raises))

CategorySelected(k) ==
    \E upd \in UpdatesOf(k), raises \in RaisesOf(k, 2) :
        /\ Routed(k, upd, "category_selected")
        /\ Apply(k, upd, "category_selected", Gone,
                 category_selected(k, upd.data, raises))

\* The inputs a handler does not read on the path it takes are fixed, so
\* that each outcome is drawn once.
DifficultySelected(k) ==
    \E upd \in UpdatesOf(k) :
        /\ Routed(k, upd, "difficulty_selected")
        /\ LET ud == user_data[k[2]]
               category_id == IF "category_id" \in DOMAIN ud
                              THEN ud.category_id ELSE 0
           IN \E resp \in Responses(category_id, upd.data) :
              \E raises \in RaisesOf(k, IF resp.results = <<>> THEN 2 ELSE 3),
                 shift \in (IF resp.results = <<>> THEN {0} ELSE ShiftsOf(k)) :
              \E reach \in (IF raises = 0 /\ resp.results # <<>>
                            THEN ReachChoices(k) ELSE {NoReach}) :
                 Apply(k, upd, "difficulty_selected", Gone,
                       difficulty_selected(k, upd.data, resp, shift, reach,
                                           raises))

HandleAnswer(k) ==
    \E upd \in UpdatesOf(k) :
        /\ Routed(k, upd, "handle_answer")
        /\ IF ~Accepts(k[2], upd.data)
           THEN \E raises \in RaisesOf(k, 1) :
                   Apply(k, upd, "handle_answer", Gone,
                         handle_answer(k, upd.data, Gone, NoReach, FALSE,
                                       raises))
           ELSE \E origin \in OriginsOf(k) :
                \E raises \in (IF CanEdit(chat_msgs[k], origin)
                               THEN RaisesOf(k, 3) ELSE {0}) :
                \E delete_ok \in (IF raises \in {0, 3}
                                     /\ CanEdit(chat_msgs[k], origin)
                                  THEN DeletesOf(k) ELSE {TRUE}),
                   reach \in (IF raises = 0 /\ CanEdit(chat_msgs[k], origin)
                              THEN ReachChoices(k) ELSE {NoReach}) :
                   Apply(k, upd, "handle_answer", origin,
                         handle_answer(k, upd.data, origin, reach, delete_ok,
                                       raises))

PlayAgain(k) ==
    \E upd \in UpdatesOf(k), raises \in RaisesOf(k, 1) :
        /\ Routed(k, upd, "play_again")
        /\ Apply(k, upd, "play_again", Gone, play_again(k, upd.data, raises))

Cancel(k) ==
    \E upd \in UpdatesOf(k), raises \in RaisesOf(k, 1) :
        /\ Routed(k, upd, "cancel")
        /\ Apply(k, upd, "cancel", Gone, cancel(k, raises))

\* an update no handler of the conversation matches is dropped
Dropped(k) ==
    \E upd \in UpdatesOf(k) :
        /\ Routed(k, upd, "none")
        /\ Apply(k, upd, "none", Gone,
                 Reply(k, user_data_store, user_data[k[2]], conversations[k],
                       FALSE, ""))

Next ==
    \/ Start(Main)
    \/ ShowCategories(Main)
    \/ CategorySelected(Main)
    \/ DifficultySelected(Main)
    \/ HandleAnswer(Main)
    \/ PlayAgain(Main)
    \/ Cancel(Main)
    \/ Dropped(Main)

Spec == Init /\ [][Next]_vars

----------------------------------------------------------------------------
(* Several conversations.  difficulty_selected is taken in two steps, up   *)
(* to its await of fetch_questions_async and from the response on, to show *)
(* what the application does with the other updates in between.            *)

\* difficulty_selected up to the fetch: the paths that return or raise before
\* it are handled whole, on the other one the handler is suspended
FetchBegin(k) ==
    \E upd \in UpdatesOf(k), raises \in RaisesOf(k, 1) :
        /\ Routed(k, upd, "difficulty_selected")
        /\ IF "category_id" \notin DOMAIN user_data[k[2]] \/ raises = 1
           THEN Apply(k, upd, "difficulty_selected", Gone,
                      difficulty_selected(k, upd.data,
                                          [kind |-> "error", results |-> <<>>],
                                          0, NoReach, raises))
           ELSE /\ awaiting' = [key |-> k, data |-> upd.data]
                /\ UNCHANGED <<conversations, user_data_store, user_data,
                               chat_msgs, tally, last>>

\* difficulty_selected from the response of the fetch on
FetchReturn(k) ==
    /\ awaiting.key = k
    /\ LET upd == [kind |-> "callback_query", data |-> awaiting.data]
       IN \E resp \in Responses(user_data[k[2]].category_id, upd.data) :
          \E raises \in RaisesOf(k, IF resp.results = <<>> THEN 2 ELSE 3) \ {1},
             shift \in (IF resp.results = <<>> THEN {0} ELSE ShiftsOf(k)) :
          \E reach \in (IF raises = 0 /\ resp.results # <<>>
                        THEN ReachChoices(k) ELSE {NoReach}) :
             Apply(k, upd, "difficulty_selected", Gone,
                   difficulty_selected(k, upd.data, resp, shift, reach, raises))

\* two users in one group chat
TwoUsers == {<<"c2", "u1">>, <<"c2", "u2">>}

NextUsers ==
    \/ \E k \in TwoUsers : Start(k)
    \/ \E k \in TwoUsers : ShowCategories(k)
    \/ \E k \in TwoUsers : CategorySelected(k)
    \/ \E k \in TwoUsers : FetchBegin(k)
    \/ \E k \in TwoUsers : FetchReturn(k)
    \/ \E k \in TwoUsers : HandleAnswer(k)
    \/ \E k \in TwoUsers : PlayAgain(k)
    \/ \E k \in TwoUsers : Cancel(k)
    \/ \E k \in TwoUsers : Dropped(k)

SpecUsers == Init /\ [][NextUsers]_vars

\* one user in two chats
TwoChats == {<<"c1", "u2">>, <<"c2", "u2">>}

NextChats ==
    \/ \E k \in TwoChats : Start(k)
    \/ \E k \in TwoChats : ShowCategories(k)
    \/ \E k \in TwoChats : CategorySelected(k)
    \/ \E k \in TwoChats : FetchBegin(k)
    \/ \E k \in TwoChats : FetchReturn(k)
    \/ \E k \in TwoChats : HandleAnswer(k)
    \/ \E k \in TwoChats : PlayAgain(k)
    \/ \E k \in TwoChats : Cancel(k)
    \/ \E k \in TwoChats : Dropped(k)

SpecChats == Init /\ [][NextChats]_vars

----------------------------------------------------------------------------
(* A user who, once the quiz has begun, only answers the question shown,   *)
(* with every message call succeeding.                                     *)

\* handle_answer for a press of an option of the question shown last
Answer(k) ==
    \E upd \in UpdatesOf(k) :
        /\ Routed(k, upd, "handle_answer")
        /\ Known(k[2], upd.data)
        /\ QuestionMsg \in chat_msgs[k]
        /\ Apply(k, upd, "handle_answer", QuestionMsg,
                 handle_answer(k, upd.data, QuestionMsg,
                               [old |-> {}, new |-> TRUE], TRUE, 0))

Solo == <<"c2", "u2">>

NotInQuiz(k) == conversations[k] # QUIZ

NextAnswering ==
    \/ NotInQuiz(Solo) /\ Start(Solo)
    \/ NotInQuiz(Solo) /\ ShowCategories(Solo)
    \/ NotInQuiz(Solo) /\ CategorySelected(Solo)
    \/ NotInQuiz(Solo) /\ DifficultySelected(Solo)
    \/ NotInQuiz(Solo) /\ PlayAgain(Solo)
    \/ NotInQuiz(Solo) /\ Cancel(Solo)
    \/ NotInQuiz(Solo) /\ Dropped(Solo)
    \/ Answer(Solo)

\* the user keeps answering: an answer that can be delivered is delivered
SpecAnswering == Init /\ [][NextAnswering]_vars /\ WF_vars(Answer(Solo))

TypeOK ==
    /\ \A k \in Keys :
          /\ conversations[k] \in {NOT_STARTED, END, SELECTING_CATEGORY,
                                   SELECTING_DIFFICULTY, QUIZ}
          /\ chat_msgs[k] \subseteq MsgRecords
          /\ Cardinality(chat_msgs[k]) <= MaxMsgs
    /\ DOMAIN user_data_store \subseteq Users
    /\ awaiting.key \in Keys \cup {Idle.key}

----------------------------------------------------------------------------
(* The claims *)

LastUser == last.key[2]

\* C1: a press from a stale question message (a later question has been
\* shown since and callback_map replaced) is rejected: score and index stay
\* as they are and the conversation stays in QUIZ.
C1_StaleTokenRejected ==
    [][(last'.handler = "handle_answer" /\ last'.stale)
        => LET u == last'.key[2]
           IN /\ conversations'[last'.key] = QUIZ
              /\ HasSession(u) => /\ u \in DOMAIN user_data_store'
                                  /\ user_data_store'[u].score
                                        = user_data_store[u].score
                                  /\ user_data_store'[u].index
                                        = user_data_store[u].index]_vars

\* C2: every session has 0 <= score <= index <= 10 after every handler,
\* whether it returned or was aborted by an exception.
C2_ScoreIndexBound ==
    \A u \in DOMAIN user_data_store :
        LET data == user_data_store[u]
        IN 0 <= data.score /\ data.score <= data.index /\ data.index <= AMOUNT

\* C3: in QUIZ, handle_answer with a token that is no key of the session's
\* current callback_map changes neither the session (score, index,
\* callback_map) nor the conversation state, however often it is repeated.
C3_UnknownTokenNoEffect ==
    [][(last'.handler = "handle_answer" /\ ~last'.known)
        => /\ conversations[last'.key] = QUIZ
           /\ conversations' = conversations
           /\ user_data_store' = user_data_store]_vars

C3_Witness ==
    /\ last.handler = "handle_answer" /\ ~last.known
    /\ last.notice = "invalid selection"
    /\ HasSession(LastUser) /\ user_data_store[LastUser].index = 3
    /\ conversations[last.key] = QUIZ

\* C4: with every message call succeeding and every question answered once
\* from its own message, the score is the number of answers whose resolved
\* option text is the question's correct answer, and the AMOUNT-th accepted
\* answer shows the post-quiz menu and moves to SELECTING_CATEGORY.
C4_FinalScore ==
    \A u \in DOMAIN user_data_store :
        tally[u].clean =>
            /\ user_data_store[u].score = tally[u].correct
            /\ user_data_store[u].index = tally[u].answers
            /\ (tally[u].answers = AMOUNT /\ last.handler = "handle_answer"
                  /\ LastUser = u)
                => /\ conversations[last.key] = SELECTING_CATEGORY
                   /\ last.notice = "finished"
            /\ (tally[u].answers < AMOUNT /\ last.handler = "handle_answer"
                  /\ LastUser = u)
                => conversations[last.key] = QUIZ

C4_Witness ==
    /\ HasSession("u1") /\ tally["u1"].clean
    /\ tally["u1"].answers = AMOUNT /\ tally["u1"].correct = AMOUNT
    /\ user_data_store["u1"].score = AMOUNT
    /\ last.notice = "finished"
    /\ conversations[Main] = SELECTING_CATEGORY

\* the question lists a call of the Question Source can yield
FreshQuestions(call) ==
    {fetch_questions_async(resp, shift).questions :
        resp \in Responses(call.category_id, call.difficulty),
        shift \in 0..MaxShift}

\* C5: after start has run the user has no session, and the session the next
\* successful difficulty_selected creates has score 0, index 0, the questions
\* just fetched and the callback_map of its first question.
C5_RestartDiscards ==
    /\ last.handler = "start" => ~HasSession(LastUser)
    /\ (last.handler = "difficulty_selected" /\ last.fetched = "questions"
          /\ ~last.raised)
        => /\ HasSession(LastUser)
           /\ LET data == user_data_store[LastUser]
              IN /\ data.score = 0 /\ data.index = 0
                 /\ data.questions \in FreshQuestions(last.call)
                 /\ DOMAIN data = {"questions", "score", "index", "callback_map"}
                 /\ data.callback_map = CallbackMap(data.questions[1][3])

C5_Witness ==
    /\ last.handler = "start" /\ last.prior = 4
    /\ ~HasSession(LastUser)
    /\ conversations[last.key] = SELECTING_CATEGORY

C7_StartRestartsAnywhere ==
    (last.event \in {"start", "text"} /\ ~last.raised)
        => /\ ~HasSession(LastUser)
           /\ conversations[last.key] = SELECTING_CATEGORY

C9_ExitDiscardsSession ==
    (last.handler = "play_again" /\ last.data = "exit" /\ ~last.raised
       /\ conversations[last.key] = END)
        => ~HasSession(LastUser)

\* C10: the Question Source is called with the table id of the category
\* chosen and with the difficulty chosen, and when it yields questions the
\* session is created with index 0, score 0 and exactly 10 questions.
C10_FetchArguments ==
    (last.handler = "difficulty_selected" /\ last.call # NoCall)
        => /\ "category_name" \in DOMAIN user_data[LastUser]
           /\ user_data[LastUser].category_name \in DOMAIN CATEGORIES
           /\ last.call.category_id
                 = CATEGORIES[user_data[LastUser].category_name]
           /\ last.call.difficulty = last.data
           /\ last.fetched = "questions"
                => /\ HasSession(LastUser)
                   /\ user_data_store[LastUser].index = 0
                   /\ user_data_store[LastUser].score = 0
                   /\ Len(user_data_store[LastUser].questions) = 10

C10_Witness ==
    /\ last.handler = "difficulty_selected" /\ ~last.raised
    /\ last.call = [category_id |-> 23, difficulty |-> "easy"]
    /\ user_data[LastUser].category_name = "History"
    /\ last.fetched = "questions"
    /\ HasSession(LastUser)
    /\ Len(user_data_store[LastUser].questions) = 10
    /\ user_data_store[LastUser].index = 0
    /\ conversations[last.key] = QUIZ

\* the item of the API's results a question of a session was parsed from
SourceItem(q) ==
    CHOOSE item \in {ResultsA[i] : i \in 1..AMOUNT}
                       \cup {ResultsB[i] : i \in 1..AMOUNT} :
        Unescape(item.question) = q[1]

\* C11: whenever send_question has shown a question, the session's
\* callback_map has as many entries as the question has options, and every
\* option text of the question (the correct answer and each incorrect one,
\* unescaped) is the value of exactly one entry; no entry has another value.
C11_CallbackMapOfQuestion ==
    last.notice = "question"
        => /\ HasSession(LastUser)
           /\ LET data == user_data_store[LastUser]
                  q == data.questions[data.index + 1]
                  item == SourceItem(q)
                  texts == {Unescape(item.correct_answer)}
                           \cup {Unescape(item.incorrect_answers[i]) :
                                    i \in 1..Len(item.incorrect_answers)}
                  cm == GetCallbackMap(data)
              IN /\ Cardinality(DOMAIN cm) = Len(q[3])
                 /\ Len(q[3]) = Len(item.incorrect_answers) + 1
                 /\ \A t \in texts :
                       Cardinality({key \in DOMAIN cm : cm[key] = t}) = 1
                 /\ \A key \in DOMAIN cm : cm[key] \in texts

C11_Witness ==
    /\ last.handler = "handle_answer" /\ last.notice = "question"
    /\ HasSession(LastUser)
    /\ user_data_store[LastUser].index = 5
    /\ \E key \in DOMAIN GetCallbackMap(user_data_store[LastUser]) :
          user_data_store[LastUser].callback_map[key] = "Tom & Jerry"

\* C12: whenever a conversation is in QUIZ, its user has a session whose
\* index is below the number of questions.
C12_QuizHasQuestion ==
    \A k \in Keys :
        conversations[k] = QUIZ
            => /\ HasSession(k[2])
               /\ user_data_store[k[2]].index
                     < Len(user_data_store[k[2]].questions)

\* C13: the difficulty the Question Source is called with is one of easy,
\* medium, hard.
C13_DifficultyKnown ==
    last.call # NoCall => last.call.difficulty \in DIFFICULTIES

\* C14: while a session lasts, its questions never change and its score and
\* index never decrease; a handle_answer step that completes leaves score
\* and index as they are when the token is rejected, and otherwise adds 1 to
\* index and adds to score 1 if the resolved option is the current
\* question's correct answer and 0 if not.
C14_AnswerStep ==
    [][LET u == last'.key[2]
       IN (HasSession(u) /\ u \in DOMAIN user_data_store'
             /\ last'.fetched # "questions")
           => LET old == user_data_store[u]
                  new == user_data_store'[u]
              IN /\ new.questions = old.questions
                 /\ new.score >= old.score /\ new.index >= old.index
                 /\ (last'.handler = "handle_answer" /\ ~last'.raised)
                     => IF ~last'.known
                        THEN new.score = old.score /\ new.index = old.index
                        ELSE /\ new.index = old.index + 1
                             /\ new.score = old.score
                                   + (IF last'.right THEN 1 ELSE 0)]_vars

C14_Witness ==
    /\ last.handler = "handle_answer" /\ last.known /\ last.right
    /\ ~last.raised /\ last.prior = 6
    /\ HasSession(LastUser)
    /\ user_data_store[LastUser].index = 7
    /\ user_data_store[LastUser].score = 3

C15_QuizTerminates ==
    /\ (conversations[Solo] = QUIZ)
          ~> (conversations[Solo] = SELECTING_CATEGORY
                /\ last.notice = "finished")
    /\ [](conversations[Solo] = QUIZ
            => /\ HasSession(Solo[2])
               /\ last.notice = "question"
               /\ QuestionMsg \in chat_msgs[Solo]
               /\ tally[Solo[2]].answers = user_data_store[Solo[2]].index
               /\ user_data_store[Solo[2]].index
                     < Len(user_data_store[Solo[2]].questions))
    /\ [](last.notice = "finished"
            => /\ HasSession(Solo[2])
               /\ tally[Solo[2]].answers
                     = Len(user_data_store[Solo[2]].questions))

C15_Witness ==
    /\ conversations[Solo] = SELECTING_CATEGORY
    /\ last.handler = "handle_answer" /\ last.notice = "finished"
    /\ last.prior = AMOUNT - 1
    /\ tally[Solo[2]].answers = AMOUNT

\* C16: handling an event of one user leaves every other user's session,
\* user data (the stored category) and conversation states as they are.
C16_UserIsolation ==
    [][\A u \in Users \ {last'.key[2]} :
          /\ (u \in DOMAIN user_data_store') = (u \in DOMAIN user_data_store)
          /\ u \in DOMAIN user_data_store
                => user_data_store'[u] = user_data_store[u]
          /\ user_data'[u] = user_data[u]
          /\ \A c \in Chats :
                conversations'[<<c, u>>] = conversations[<<c, u>>]]_vars

C16_Witness ==
    /\ last.key = <<"c2", "u1">> /\ last.handler = "cancel"
    /\ last.prior = 2 /\ ~HasSession("u1")
    /\ HasSession("u2") /\ user_data_store["u2"].index = 5
    /\ conversations[<<"c2", "u2">>] = QUIZ

\* some update of conversation k is taken up by the application
Handled(k) ==
    \/ Start(k) \/ ShowCategories(k) \/ CategorySelected(k) \/ FetchBegin(k)
    \/ HandleAnswer(k) \/ PlayAgain(k) \/ Cancel(k) \/ Dropped(k)

\* C18: while a difficulty_selected is suspended at the question fetch, an
\* event of another user can be handled.
C18_OthersNotBlocked ==
    awaiting # Idle
        => \E k \in TwoUsers : k[2] # awaiting.key[2] /\ ENABLED Handled(k)

\* C19: an event handled in one chat leaves the session alone that a
\* conversation in QUIZ of the same user in another chat is using.
C19_ChatsIndependent ==
    [][\A j \in Keys :
          (j # last'.key /\ j[2] = last'.key[2] /\ conversations[j] = QUIZ
             /\ HasSession(j[2]))
              => /\ j[2] \in DOMAIN user_data_store'
                 /\ user_data_store'[j[2]] = user_data_store[j[2]]]_vars

====
